---- MODULE Spec2Model ----
(***************************************************************************)
(* Model of the BM77 blood-pressure cuff controller (class BM77) and of    *)
(* the BLE stack it drives, and of the screen (App) that calls it.  Five    *)
(* state machines share this module:                                       *)
(*   SpecDecode   the frame decoder (base64ToHex, convertBloodPressure)    *)
(*   SpecScan     startScan / stopScan against the stack's scan listener   *)
(*   SpecConnect  connect / discoverWithDelay against one device handle    *)
(*   SpecStream   receiveData's notification listener                      *)
(*   SpecApp      the screen flow of App.renderState driving all of these  *)
(* JavaScript strings are sequences of one-character strings, so that      *)
(* indexing, concatenation, substr and parseInt act on characters.         *)
(***************************************************************************)
EXTENDS Integers, Sequences, FiniteSets, TLC

VARIABLES
    \* ---- decoder ----
    rawFrame,       \* bytes the cuff put in the notification
    measurement,    \* result of convertBloodPressure for rawFrame
    edits,          \* how many bytes of the frame the environment changed
    \* ---- scanner ----
    scanCalls,      \* number of startScan calls made so far
    scanListener,   \* the startScan call whose listener the stack holds, or NoListener
    scanPromise,    \* scanPromise[i]: the promise startScan call i returned
    heard,          \* heard[i]: the (error, device) pairs delivered to listener i
    scannerStops,   \* scannerStops[i]: stopDeviceScan calls made by listener i
    cancelled,      \* cancelled[i]: stopScan was called while call i was pending
    \* ---- connection ----
    now,            \* the clock, in milliseconds
    link,           \* the physical link of the device handle: "down" or "up"
    connectCalls,   \* number of connect calls made so far
    pc,             \* pc[s]: where connect call s stands
    connectPromise, \* connectPromise[s]: the promise connect call s returned
    timerDue,       \* timerDue[s]: when the settling timer of s fires, or NoTime
    observers,      \* the sessions whose disconnect observer the handle holds
    disconnectCalls,\* disconnectCalls[s]: invocations of the onDisconnect of s
    events,         \* events[s]: the steps of s, each with the time it happened
    \* ---- notification stream ----
    subscribed,     \* receiveData has registered its listener
    notified,       \* the notifications the stack delivered to the listener
    dataCalls,      \* the arguments of the onData invocations, in order
    errorCalls,     \* the arguments of the onError invocations, in order
    \* ---- screen (App) ----
    uiState,        \* the BleState the screen is in
    measurements,   \* the measurements list of the screen
    errorMsg,       \* the message of the error dialog, "" when it is hidden
    deviceCurrent,  \* device.current, the handle the last finished scan found
    startPresses,   \* number of presses of Start scan so far
    startPc,        \* startPc[h]: where the handler of press h of Start scan stands
    scanOf,         \* scanOf[h]: the startScan call handler h made, or NoListener
    cancelPressed,  \* Cancel Scan was pressed and Start scan not pressed since
    connectPc,      \* connectPc[s]: where the Connect handler that made call s stands
    subscriptions,  \* number of listeners Receive Data registered through receiveData
    delivered       \* number of notifications the stack delivered to them

decodeVars == <<rawFrame, measurement, edits>>
scanVars == <<scanCalls, scanListener, scanPromise, heard, scannerStops, cancelled>>
connVars == <<now, link, connectCalls, pc, connectPromise, timerDue, observers,
              disconnectCalls, events>>
streamVars == <<subscribed, notified, dataCalls, errorCalls>>
appVars == <<uiState, measurements, errorMsg, deviceCurrent, startPresses, startPc,
             scanOf, cancelPressed, connectPc, subscriptions, delivered>>
vars == <<decodeVars, scanVars, connVars, streamVars, appVars>>

(***************************************************************************)
(* JavaScript values                                                       *)
(***************************************************************************)

\* String(undefined), what an out-of-range array or string index reads as.
Undefined == <<"u", "n", "d", "e", "f", "i", "n", "e", "d">>

\* The number NaN; every other number of the model is >= 0.
NaN == -1

Min(a, b) == IF a < b THEN a ELSE b

HexDigits == <<"0", "1", "2", "3", "4", "5", "6", "7",
               "8", "9", "a", "b", "c", "d", "e", "f">>

IsHexDigit(c) == \E k \in 1..16 : HexDigits[k] = c

HexValue(c) == (CHOOSE k \in 1..16 : HexDigits[k] = c) - 1

\* array[i] / string[i] with a 0-based index: undefined past the end.
Index(arr, i) == IF i < Len(arr) THEN arr[i + 1] ELSE Undefined

\* string.substr(-n): the last n characters (the whole string if shorter).
SubstrLast(s, n) == IF Len(s) <= n THEN s ELSE SubSeq(s, Len(s) - n + 1, Len(s))

\* The longest prefix of s made of hexadecimal digits.
RECURSIVE HexPrefix(_)
HexPrefix(s) ==
    IF s = <<>> \/ ~IsHexDigit(Head(s)) THEN <<>>
    ELSE <<Head(s)>> \o HexPrefix(Tail(s))

RECURSIVE HexNumber(_)
HexNumber(s) ==
    IF s = <<>> THEN 0
    ELSE 16 * HexNumber(SubSeq(s, 1, Len(s) - 1)) + HexValue(s[Len(s)])

\* parseInt(s, 16): the digits up to the first non-digit; NaN if there are none.
ParseInt16(s) == IF HexPrefix(s) = <<>> THEN NaN ELSE HexNumber(HexPrefix(s))

\* Number.prototype.toString(2)
RECURSIVE ToBinaryString(_)
ToBinaryString(n) ==
    IF n = NaN THEN <<"N", "a", "N">>
    ELSE IF n < 2 THEN <<HexDigits[n + 1]>>
    ELSE ToBinaryString(n \div 2) \o <<HexDigits[(n % 2) + 1]>>

(***************************************************************************)
(* The wire format: the stack hands a notification's bytes over as base64, *)
(* and Buffer turns base64 back into bytes and bytes into hexadecimal.     *)
(***************************************************************************)

Base64Alphabet ==
    <<"A", "B", "C", "D", "E", "F", "G", "H", "I", "J", "K", "L", "M",
      "N", "O", "P", "Q", "R", "S", "T", "U", "V", "W", "X", "Y", "Z",
      "a", "b", "c", "d", "e", "f", "g", "h", "i", "j", "k", "l", "m",
      "n", "o", "p", "q", "r", "s", "t", "u", "v", "w", "x", "y", "z",
      "0", "1", "2", "3", "4", "5", "6", "7", "8", "9", "+", "/">>

Base64Char(n) == Base64Alphabet[n + 1]

Base64Value(c) == (CHOOSE k \in 1..64 : Base64Alphabet[k] = c) - 1

\* What the stack does to the characteristic's bytes before the listener sees them.
RECURSIVE Base64Encode(_)
Base64Encode(bytes) ==
    IF bytes = <<>> THEN <<>>
    ELSE IF Len(bytes) = 1 THEN
        <<Base64Char(bytes[1] \div 4), Base64Char((bytes[1] % 4) * 16), "=", "=">>
    ELSE IF Len(bytes) = 2 THEN
        <<Base64Char(bytes[1] \div 4),
          Base64Char((bytes[1] % 4) * 16 + bytes[2] \div 16),
          Base64Char((bytes[2] % 16) * 4), "=">>
    ELSE
        <<Base64Char(bytes[1] \div 4),
          Base64Char((bytes[1] % 4) * 16 + bytes[2] \div 16),
          Base64Char((bytes[2] % 16) * 4 + bytes[3] \div 64),
          Base64Char(bytes[3] % 64)>>
        \o Base64Encode(SubSeq(bytes, 4, Len(bytes)))

\* The characters of a base64 string before its padding.
RECURSIVE Base64Payload(_)
Base64Payload(s) ==
    IF s = <<>> \/ Head(s) = "=" THEN <<>>
    ELSE <<Head(s)>> \o Base64Payload(Tail(s))

RECURSIVE Base64Bytes(_)
Base64Bytes(p) ==
    IF Len(p) < 2 THEN <<>>
    ELSE LET a == Base64Value(p[1])
             b == Base64Value(p[2])
         IN  IF Len(p) = 2 THEN <<a * 4 + b \div 16>>
             ELSE LET c == Base64Value(p[3])
                  IN  IF Len(p) = 3 THEN <<a * 4 + b \div 16, (b % 16) * 16 + c \div 4>>
                      ELSE <<a * 4 + b \div 16,
                             (b % 16) * 16 + c \div 4,
                             (c % 4) * 64 + Base64Value(p[4])>>
                           \o Base64Bytes(SubSeq(p, 5, Len(p)))

\* Buffer.from(base64, 'base64')
BufferFromBase64(base64) == Base64Bytes(Base64Payload(base64))

\* Buffer.toString('hex'): two lower-case digits per byte.
RECURSIVE BufferToHex(_)
BufferToHex(bytes) ==
    IF bytes = <<>> THEN <<>>
    ELSE <<HexDigits[(Head(bytes) \div 16) + 1], HexDigits[(Head(bytes) % 16) + 1]>>
         \o BufferToHex(Tail(bytes))

\* A characteristic whose value the stack reports as null.
NullValue == <<"null">>

\* The for loop of base64ToHex: hexString.substring(i, i + 2) for i = 0, 2, 4, ...
RECURSIVE HexPairs(_)
HexPairs(hexString) ==
    IF hexString = <<>> THEN <<>>
    ELSE <<SubSeq(hexString, 1, Min(2, Len(hexString)))>>
         \o HexPairs(SubSeq(hexString, 3, Len(hexString)))

base64ToHex(base64) ==
    IF base64 # NullValue
    THEN HexPairs(BufferToHex(BufferFromBase64(base64)))
    ELSE <<>>

(***************************************************************************)
(* The decoder                                                             *)
(***************************************************************************)

\* string[i] with a 0-based index, as a string of one character.
CharAt(s, i) == IF i < Len(s) THEN <<s[i + 1]>> ELSE Undefined

hex2bin(hexOneByte) ==
    SubstrLast(<<"0", "0", "0", "0", "0", "0", "0", "0">>
               \o ToBinaryString(ParseInt16(hexOneByte)), 8)

pulseRateConvert(binary) ==
    CASE binary = <<"0", "0">> -> "In range"
      [] binary = <<"0", "1">> -> "Exceeds upper limit"
      [] binary = <<"1", "0">> -> "Below lower limit"
      [] OTHER -> "Undefined"

HSDConvert(binary) ==
    CASE binary = <<"0", "0">> -> "HSD not detected"
      [] binary = <<"0", "1">> -> "HSD detected"
      [] binary = <<"1", "0">> -> "Unable to judge"
      [] OTHER -> "Undefined"

\* A 16-bit field joined in frame order, high byte first.
WordBigEndian(hexArray, low) == Index(hexArray, low) \o Index(hexArray, low + 1)

\* hexArray[low + 1] + hexArray[low]: the two bytes of a 16-bit field as the
\* decoder joins them before parseInt.
Word(hexArray, low) == Index(hexArray, low + 1) \o Index(hexArray, low)

\* The status byte in binary without the padding to eight digits.
StatusFlagsUnpadded(hexArray) == ToBinaryString(ParseInt16(Index(hexArray, 17)))

\* The status flags taken from the byte after the status byte.
StatusFlagsSecondByte(hexArray) == hex2bin(Index(hexArray, 18))

StatusFlags(hexArray) == hex2bin(Index(hexArray, 17))

convertBloodPressure(hexArray) ==
    LET statusFlagsOne == StatusFlags(hexArray)
    IN  [header |-> ParseInt16(Index(hexArray, 0)),
         systolic |-> ParseInt16(Word(hexArray, 1)),
         diastolic |-> ParseInt16(Word(hexArray, 3)),
         meanArterialPressure |-> ParseInt16(Index(hexArray, 5)),
         year |-> ParseInt16(Word(hexArray, 7)),
         month |-> ParseInt16(Index(hexArray, 9)),
         day |-> ParseInt16(Index(hexArray, 10)),
         hours |-> ParseInt16(Index(hexArray, 11)),
         minutes |-> ParseInt16(Index(hexArray, 12)),
         seconds |-> ParseInt16(Index(hexArray, 13)),
         pulseRate |-> ParseInt16(Word(hexArray, 14)),
         userID |-> ParseInt16(Index(hexArray, 16)),
         bodyMovement |->
             IF CharAt(statusFlagsOne, 0) = <<"0">>
             THEN "No body movement" ELSE "Body movement",
         cuffFit |->
             IF CharAt(statusFlagsOne, 1) = <<"0">>
             THEN "Cuff fits properly" ELSE "Cuff is too loose",
         irregularPulse |->
             IF CharAt(statusFlagsOne, 2) = <<"0">>
             THEN "No irregular pulse" ELSE "Irregular pulse",
         pulseRateRange |->
             pulseRateConvert(CharAt(statusFlagsOne, 3) \o CharAt(statusFlagsOne, 4)),
         measurementPosition |->
             IF CharAt(statusFlagsOne, 5) = <<"0">>
             THEN "Proper position" ELSE "Improper position",
         HSD |-> HSDConvert(CharAt(statusFlagsOne, 6) \o CharAt(statusFlagsOne, 7))]

\* What the notification listener computes from the bytes the cuff sent.
Decode(bytes) == convertBloodPressure(base64ToHex(Base64Encode(bytes)))

(***************************************************************************)
(* SpecDecode: the cuff sends frames, the listener decodes each            *)
(***************************************************************************)

\* How many bytes of a frame the environment changes.
MaxEdits == 1

FrameLength == 20

\* 00 78 00 50 00 00 00 E7 07 06 0F 0A 1E 00 48 00 00 00 00 00
ExampleFrame ==
    <<0, 120, 0, 80, 0, 0, 0, 231, 7, 6, 15, 10, 30, 0, 72, 0, 0, 0, 0, 0>>

\* A frame whose 16-bit fields have a non-zero high byte and whose spare bytes are set.
BusyFrame ==
    <<22, 44, 1, 160, 2, 10, 153, 232, 7, 12, 31, 23, 59, 58, 5, 1, 1, 255, 171, 205>>

BaseFrames == {ExampleFrame, BusyFrame}

ByteSamples == {0, 9, 128, 255}

Bytes == 0..255

StatusOffset == 17

NoMeasurement == <<>>

InitDecode ==
    /\ rawFrame = <<>>
    /\ measurement = NoMeasurement
    /\ edits = 0

\* The listener's value branch for one frame: base64ToHex, convertBloodPressure.
ReceiveFrame(frame) ==
    /\ rawFrame' = frame
    /\ measurement' = <<Decode(frame)>>

FirstFrame ==
    /\ rawFrame = <<>>
    /\ \E frame \in BaseFrames : ReceiveFrame(frame)
    /\ UNCHANGED edits
    /\ UNCHANGED <<scanVars, connVars, streamVars, appVars>>

NextFrame ==
    /\ rawFrame # <<>>
    /\ edits < MaxEdits
    /\ \E i \in (0..(FrameLength - 1)) \ {StatusOffset}, b \in ByteSamples :
          /\ rawFrame[i + 1] # b
          /\ ReceiveFrame([rawFrame EXCEPT ![i + 1] = b])
    /\ edits' = edits + 1
    /\ UNCHANGED <<scanVars, connVars, streamVars, appVars>>

NextStatus ==
    /\ rawFrame # <<>>
    /\ edits < MaxEdits
    /\ \E b \in Bytes :
          /\ rawFrame[StatusOffset + 1] # b
          /\ ReceiveFrame([rawFrame EXCEPT ![StatusOffset + 1] = b])
    /\ edits' = edits + 1
    /\ UNCHANGED <<scanVars, connVars, streamVars, appVars>>

NextDecode ==
    \/ FirstFrame
    \/ NextFrame
    \/ NextStatus

(***************************************************************************)
(* SpecScan: startScan and stopScan against the stack's scan listener.     *)
(* The stack keeps at most one scan listener: startDeviceScan replaces it, *)
(* stopDeviceScan removes it, and only the listener it holds is called.    *)
(***************************************************************************)

\* How many times the caller calls startScan.
MaxScans == 2

\* How many advertisements and scan errors the stack reports in all.
MaxReports == 3

deviceName == <<"B", "M", "7", "7">>

\* An advertisement that carries no name.
NoName == <<"null">>

NoError == "none"

NoListener == 0

\* The device argument of the listener when the stack reports an error.
NullDevice == [id |-> 0, name |-> NoName]

Devices ==
    {[id |-> 1, name |-> <<"B", "M", "7", "7">>],
     [id |-> 2, name |-> <<"B", "M", "7", "7">>],
     [id |-> 3, name |-> <<"B", "M", "7", "7", "0">>],
     [id |-> 4, name |-> <<"b", "m", "7", "7">>],
     [id |-> 5, name |-> NoName],
     [id |-> 6, name |-> <<"H", "R", "M">>]}

ScanErrors == {"BluetoothPoweredOff", "BluetoothUnauthorized"}

ScanCallIds == 1..MaxScans

PendingPromise == [status |-> "pending", device |-> NullDevice, error |-> NoError]

\* resolve(device) of a promise: only the first settlement counts.
Resolve(promise, device) ==
    IF promise.status = "pending"
    THEN [status |-> "resolved", device |-> device, error |-> NoError]
    ELSE promise

\* reject(error) of a promise: only the first settlement counts.
Reject(promise, error) ==
    IF promise.status = "pending"
    THEN [status |-> "rejected", device |-> NullDevice, error |-> error]
    ELSE promise

\* device?.name
NameOf(device) == IF device = NullDevice THEN Undefined ELSE device.name

\* A comparison that accepts every name beginning with the device name.
NameMatchesPrefix(device) ==
    /\ NameOf(device) # NoName
    /\ Len(NameOf(device)) >= Len(deviceName)
    /\ SubSeq(NameOf(device), 1, Len(deviceName)) = deviceName

\* device?.name === this.deviceName
NameMatches(device) == NameOf(device) = deviceName

\* A listener that resolves on a match and leaves the stack scanning.
ScanCallbackKeepsScanning(i, error, device) ==
    LET failed == error # NoError
        matched == NameMatches(device)
        afterError == IF failed THEN Reject(scanPromise[i], error) ELSE scanPromise[i]
    IN  /\ scanListener' = IF failed THEN NoListener ELSE scanListener
        /\ scanPromise' = [scanPromise EXCEPT
               ![i] = IF matched THEN Resolve(afterError, device) ELSE afterError]
        /\ scannerStops' = [scannerStops EXCEPT ![i] = @ + (IF failed THEN 1 ELSE 0)]

\* A listener that takes no notice of the errors the stack reports.
ScanCallbackIgnoresErrors(i, error, device) ==
    LET matched == NameMatches(device)
    IN  /\ scanListener' = IF matched THEN NoListener ELSE scanListener
        /\ scanPromise' = [scanPromise EXCEPT
               ![i] = IF matched THEN Resolve(scanPromise[i], device) ELSE scanPromise[i]]
        /\ scannerStops' = [scannerStops EXCEPT ![i] = @ + (IF matched THEN 1 ELSE 0)]

\* The listener startScan hands to startDeviceScan, called with (error, device).
ScanCallback(i, error, device) ==
    LET failed == error # NoError
        matched == NameMatches(device)
        afterError == IF failed THEN Reject(scanPromise[i], error) ELSE scanPromise[i]
    IN  /\ scanListener' = IF failed \/ matched THEN NoListener ELSE scanListener
        /\ scanPromise' = [scanPromise EXCEPT
               ![i] = IF matched THEN Resolve(afterError, device) ELSE afterError]
        /\ scannerStops' = [scannerStops EXCEPT
               ![i] = @ + (IF failed THEN 1 ELSE 0) + (IF matched THEN 1 ELSE 0)]

\* A stopScan that leaves the stack's listener in place.
stopScanKeepsListener(listener) == listener

\* A stopScan that stops a running scan and, when none is running, puts the
\* listener of the latest startScan back.
stopScanToggles(listener) == IF listener = NoListener THEN scanCalls ELSE NoListener

\* stopScan: the stack's listener after bleManager.stopDeviceScan().
stopScan(listener) == NoListener

RECURSIVE TotalHeard(_)
TotalHeard(n) == IF n = 0 THEN 0 ELSE Len(heard[n]) + TotalHeard(n - 1)

InitScan ==
    /\ scanCalls = 0
    /\ scanListener = NoListener
    /\ scanPromise = [i \in ScanCallIds |-> PendingPromise]
    /\ heard = [i \in ScanCallIds |-> <<>>]
    /\ scannerStops = [i \in ScanCallIds |-> 0]
    /\ cancelled = [i \in ScanCallIds |-> FALSE]

\* startScan(): a new promise, whose listener replaces the one the stack held.
StartScan ==
    /\ scanCalls < MaxScans
    /\ scanCalls' = scanCalls + 1
    /\ scanListener' = scanCalls + 1
    /\ UNCHANGED <<scanPromise, heard, scannerStops, cancelled>>
    /\ UNCHANGED <<decodeVars, connVars, streamVars, appVars>>

\* The stack reports an advertisement to the listener it holds.
Advertise ==
    /\ scanListener # NoListener
    /\ TotalHeard(MaxScans) < MaxReports
    /\ \E device \in Devices :
          /\ heard' = [heard EXCEPT ![scanListener] =
                          Append(@, [error |-> NoError, device |-> device])]
          /\ ScanCallback(scanListener, NoError, device)
    /\ UNCHANGED <<scanCalls, cancelled>>
    /\ UNCHANGED <<decodeVars, connVars, streamVars, appVars>>

\* The stack reports a scan error to the listener it holds.
ScanFails ==
    /\ scanListener # NoListener
    /\ TotalHeard(MaxScans) < MaxReports
    /\ \E error \in ScanErrors :
          /\ heard' = [heard EXCEPT ![scanListener] =
                          Append(@, [error |-> error, device |-> NullDevice])]
          /\ ScanCallback(scanListener, error, NullDevice)
    /\ UNCHANGED <<scanCalls, cancelled>>
    /\ UNCHANGED <<decodeVars, connVars, streamVars, appVars>>

\* The caller calls stopScan().
StopScan ==
    /\ scanListener' = stopScan(scanListener)
    /\ cancelled' = [i \in ScanCallIds |->
           \/ cancelled[i]
           \/ (i = scanListener /\ scanPromise[i].status = "pending")]
    /\ UNCHANGED <<scanCalls, scanPromise, heard, scannerStops>>
    /\ UNCHANGED <<decodeVars, connVars, streamVars, appVars>>

NextScan ==
    \/ StartScan
    \/ Advertise
    \/ ScanFails
    \/ StopScan

(***************************************************************************)
(* SpecConnect: connect and discoverWithDelay on one device handle.        *)
(* Each connect call is a session s.  The handle keeps every observer      *)
(* given to device.onDisconnected and calls all of them when the link      *)
(* drops; connect never removes one.                                       *)
(***************************************************************************)

\* How many times the caller calls connect on the handle.
MaxConnects == 2

\* The clock advances in steps of TickMs up to MaxTime.
TickMs == 800

MaxTime == 4000

\* The delay given to setTimeout in discoverWithDelay.
SettleDelay == 1600

\* timerDue before setTimeout is called.
NoTime == 0 - 1

Sessions == 1..MaxConnects

ConnectionErrors == {"DeviceConnectionFailed", "DeviceAlreadyConnected"}

DiscoveryErrors == {"ServicesDiscoveryFailed"}

Unborn == [status |-> "none", error |-> NoError]

\* One entry of a session's record: what happened, when, and the error the stack
\* gave, if any.
StepWith(name, error) == [step |-> name, at |-> now, error |-> error]

Step(name) == StepWith(name, NoError)

\* A timer that is due at once.
TimerDueAtOnce(t) == t

\* setTimeout(..., 1600) called at time t: when the callback may run.
TimerDue(t) == t + SettleDelay

InitConnect ==
    /\ now = 0
    /\ link = "down"
    /\ connectCalls = 0
    /\ pc = [s \in Sessions |-> "idle"]
    /\ connectPromise = [s \in Sessions |-> Unborn]
    /\ timerDue = [s \in Sessions |-> NoTime]
    /\ observers = {}
    /\ disconnectCalls = [s \in Sessions |-> 0]
    /\ events = [s \in Sessions |-> <<>>]

\* connect(device, onDisconnect) up to its first await: device.connect() is requested.
Connect ==
    /\ connectCalls < MaxConnects
    /\ LET s == connectCalls + 1
       IN  /\ connectCalls' = s
           /\ pc' = [pc EXCEPT ![s] = "connecting"]
           /\ connectPromise' = [connectPromise EXCEPT
                  ![s] = [status |-> "pending", error |-> NoError]]
           /\ events' = [events EXCEPT ![s] = <<Step("connectRequest")>>]
    /\ UNCHANGED <<now, link, timerDue, observers, disconnectCalls>>
    /\ UNCHANGED <<decodeVars, scanVars, streamVars, appVars>>

\* device.connect() resolves: connect goes on into discoverWithDelay, which starts
\* the timer and returns its promise.
ConnectSucceeds(s) ==
    /\ pc[s] = "connecting"
    /\ link = "down"
    /\ link' = "up"
    /\ pc' = [pc EXCEPT ![s] = "settling"]
    /\ timerDue' = [timerDue EXCEPT ![s] = TimerDue(now)]
    /\ events' = [events EXCEPT ![s] = Append(@, Step("connectSuccess"))]
    /\ UNCHANGED <<now, connectCalls, connectPromise, observers, disconnectCalls>>
    /\ UNCHANGED <<decodeVars, scanVars, streamVars, appVars>>

\* A connect that catches the rejection of device.connect() and goes on.
ConnectFailsSwallowed(s, error) ==
    /\ pc[s] = "connecting"
    /\ pc' = [pc EXCEPT ![s] = "settling"]
    /\ timerDue' = [timerDue EXCEPT ![s] = TimerDue(now)]
    /\ events' = [events EXCEPT ![s] = Append(@, StepWith("connectFailed", error))]
    /\ UNCHANGED <<now, link, connectCalls, connectPromise, observers, disconnectCalls>>
    /\ UNCHANGED <<decodeVars, scanVars, streamVars, appVars>>

\* device.connect() rejects: the await throws and connect's promise rejects with it.
ConnectFails(s, error) ==
    /\ pc[s] = "connecting"
    /\ pc' = [pc EXCEPT ![s] = "rejected"]
    /\ connectPromise' = [connectPromise EXCEPT
           ![s] = [status |-> "rejected", error |-> error]]
    /\ events' = [events EXCEPT ![s] = Append(@, StepWith("connectFailed", error))]
    /\ UNCHANGED <<now, link, connectCalls, timerDue, observers, disconnectCalls>>
    /\ UNCHANGED <<decodeVars, scanVars, streamVars, appVars>>

\* Time passes.
Tick ==
    /\ now + TickMs <= MaxTime
    /\ now' = now + TickMs
    /\ UNCHANGED <<link, connectCalls, pc, connectPromise, timerDue, observers,
                   disconnectCalls, events>>
    /\ UNCHANGED <<decodeVars, scanVars, streamVars, appVars>>

\* The timer callback runs: it requests discoverAllServicesAndCharacteristics.
TimerFires(s) ==
    /\ pc[s] = "settling"
    /\ now >= timerDue[s]
    /\ pc' = [pc EXCEPT ![s] = "discovering"]
    /\ events' = [events EXCEPT
           ![s] = @ \o <<Step("delayElapsed"), Step("discoveryRequest")>>]
    /\ UNCHANGED <<now, link, connectCalls, connectPromise, timerDue, observers,
                   disconnectCalls>>
    /\ UNCHANGED <<decodeVars, scanVars, streamVars, appVars>>

\* A connect that returns after discovery without registering the observer.
DiscoverySucceedsWithoutObserver(s) ==
    /\ pc[s] = "discovering"
    /\ link = "up"
    /\ pc' = [pc EXCEPT ![s] = "established"]
    /\ connectPromise' = [connectPromise EXCEPT
           ![s] = [status |-> "resolved", error |-> NoError]]
    /\ events' = [events EXCEPT ![s] = Append(@, Step("discoveryComplete"))]
    /\ UNCHANGED <<now, link, connectCalls, timerDue, observers, disconnectCalls>>
    /\ UNCHANGED <<decodeVars, scanVars, streamVars, appVars>>

\* Discovery resolves: the callback resolves discoverWithDelay's promise, connect
\* registers the disconnect observer and returns.
DiscoverySucceeds(s) ==
    /\ pc[s] = "discovering"
    /\ link = "up"
    /\ pc' = [pc EXCEPT ![s] = "established"]
    /\ observers' = observers \cup {s}
    /\ connectPromise' = [connectPromise EXCEPT
           ![s] = [status |-> "resolved", error |-> NoError]]
    /\ events' = [events EXCEPT
           ![s] = @ \o <<Step("discoveryComplete"), Step("observerRegistered")>>]
    /\ UNCHANGED <<now, link, connectCalls, timerDue, disconnectCalls>>
    /\ UNCHANGED <<decodeVars, scanVars, streamVars, appVars>>

\* Discovery rejects: the await inside the timer callback throws, so the callback
\* ends without calling resolve; nothing settles discoverWithDelay's promise, and
\* connect stays at its await.
DiscoveryFails(s, error) ==
    /\ pc[s] = "discovering"
    /\ pc' = [pc EXCEPT ![s] = "stalled"]
    /\ events' = [events EXCEPT ![s] = Append(@, StepWith("discoveryFailed", error))]
    /\ UNCHANGED <<now, link, connectCalls, connectPromise, timerDue, observers,
                   disconnectCalls>>
    /\ UNCHANGED <<decodeVars, scanVars, streamVars, appVars>>

\* The link drops: the handle calls every observer registered on it, and each
\* calls its session's onDisconnect(DISCONNECTED).
Disconnect ==
    /\ link = "up"
    /\ link' = "down"
    /\ disconnectCalls' = [s \in Sessions |->
           IF s \in observers THEN disconnectCalls[s] + 1 ELSE disconnectCalls[s]]
    /\ UNCHANGED <<now, connectCalls, pc, connectPromise, timerDue, observers, events>>
    /\ UNCHANGED <<decodeVars, scanVars, streamVars, appVars>>

NextConnect ==
    \/ Connect
    \/ \E s \in Sessions : ConnectSucceeds(s)
    \/ \E s \in Sessions, error \in ConnectionErrors : ConnectFails(s, error)
    \/ Tick
    \/ \E s \in Sessions : TimerFires(s)
    \/ \E s \in Sessions : DiscoverySucceeds(s)
    \/ \E s \in Sessions, error \in DiscoveryErrors : DiscoveryFails(s, error)
    \/ Disconnect

(***************************************************************************)
(* SpecStream: the listener receiveData gives to                           *)
(* monitorCharacteristicForService, called with (error, result).           *)
(***************************************************************************)

\* How many notifications the stack delivers.
MaxNotifications == 3

TransportErrors == {"DeviceDisconnected", "OperationCancelled"}

\* Frames that are not 20 bytes long: beginnings of a frame, and a frame with two
\* bytes after it.
ShortLengths == {1, 2, 3, 15, 17, 19}

MalformedFrames ==
    {SubSeq(BusyFrame, 1, n) : n \in ShortLengths} \cup {BusyFrame \o <<7, 9>>}

\* What the stack can hand to the listener: an error without a result, or a
\* result whose value is null, the empty string, or a frame in base64.
Notifications ==
    {[error |-> e, value |-> NullValue] : e \in TransportErrors}
    \cup {[error |-> NoError, value |-> v] :
              v \in {NullValue, <<>>}
                    \cup {Base64Encode(f) : f \in BaseFrames \cup MalformedFrames}}

\* result?.value as a condition: neither null nor the empty string.
HasValue(notification) ==
    /\ notification.value # NullValue
    /\ notification.value # <<>>

\* A listener that stops dispatching once it has reported an error.
MonitorCallbackStopsOnError(notification) ==
    /\ errorCalls' =
           IF notification.error # NoError /\ errorCalls = <<>>
           THEN Append(errorCalls, notification.error)
           ELSE errorCalls
    /\ dataCalls' =
           IF HasValue(notification) /\ errorCalls = <<>>
           THEN Append(dataCalls,
                       convertBloodPressure(base64ToHex(notification.value)))
           ELSE dataCalls

\* A listener that hands the newest measurement and error over ahead of the
\* earlier ones.
MonitorCallbackNewestFirst(notification) ==
    /\ errorCalls' =
           IF notification.error # NoError
           THEN <<notification.error>> \o errorCalls
           ELSE errorCalls
    /\ dataCalls' =
           IF HasValue(notification)
           THEN <<convertBloodPressure(base64ToHex(notification.value))>> \o dataCalls
           ELSE dataCalls

\* A listener that reports a value which is not 20 bytes long to onError.
MonitorCallbackRejectsMalformed(notification) ==
    LET malformed ==
            /\ HasValue(notification)
            /\ Len(base64ToHex(notification.value)) # FrameLength
    IN  /\ errorCalls' =
               IF notification.error # NoError
               THEN Append(errorCalls, notification.error)
               ELSE IF malformed THEN Append(errorCalls, "DecodeFault")
               ELSE errorCalls
        /\ dataCalls' =
               IF HasValue(notification) /\ ~malformed
               THEN Append(dataCalls,
                           convertBloodPressure(base64ToHex(notification.value)))
               ELSE dataCalls

\* The listener of receiveData: onError if there is an error, and onData with
\* the decoded measurement if there is a value.
MonitorCallback(notification) ==
    /\ errorCalls' =
           IF notification.error # NoError
           THEN Append(errorCalls, notification.error)
           ELSE errorCalls
    /\ dataCalls' =
           IF HasValue(notification)
           THEN Append(dataCalls,
                       convertBloodPressure(base64ToHex(notification.value)))
           ELSE dataCalls

InitStream ==
    /\ subscribed = FALSE
    /\ notified = <<>>
    /\ dataCalls = <<>>
    /\ errorCalls = <<>>

\* receiveData(device, onError, onData): the listener is registered.
ReceiveData ==
    /\ ~subscribed
    /\ subscribed' = TRUE
    /\ UNCHANGED <<notified, dataCalls, errorCalls>>
    /\ UNCHANGED <<decodeVars, scanVars, connVars, appVars>>

\* The stack delivers one notification to the listener.
Notify ==
    /\ subscribed
    /\ Len(notified) < MaxNotifications
    /\ \E notification \in Notifications :
          /\ notified' = Append(notified, notification)
          /\ MonitorCallback(notification)
    /\ UNCHANGED subscribed
    /\ UNCHANGED <<decodeVars, scanVars, connVars, appVars>>

NextStream ==
    \/ ReceiveData
    \/ Notify

(***************************************************************************)
(* SpecApp: the screen flow App.renderState defines, driving the           *)
(* controller.  renderState shows one button per state; each press runs    *)
(* its onPress handler up to the handler's first await, and a handler      *)
(* goes on when the promise it awaits settles.  The error dialog covers    *)
(* the screen while errorMsg is not empty, so no other button can be       *)
(* pressed until it is dismissed.  In App.tsx the line that mounts         *)
(* renderState (line 211) is commented out; this machine is the flow of    *)
(* the screen with that line in place.                                     *)
(***************************************************************************)

\* The presses of Start scan; each makes at most one startScan call.
StartPresses == 1..MaxScans

\* The messages of the errors checkBleConfig throws.
ConfigErrors ==
    {"Please, activate your bluetooth",
     "Please, give a location permission. Otherwise, bluetooth connection is not possible."}

\* What the stack hands to the listeners of the screen: either transport error, a
\* result without a value, and a measurement frame.
AppNotifications ==
    {[error |-> e, value |-> NullValue] : e \in TransportErrors}
    \cup {[error |-> NoError, value |-> v] : v \in {NullValue, Base64Encode(ExampleFrame)}}

\* The advertisements the screen's scans hear: the cuff and a device whose name
\* only begins like the cuff's.
AppDevices == {device \in Devices : device.id \in {1, 3}}

\* error.errorCode === 201, the code of BleErrorCode.DeviceDisconnected.
IsDeviceDisconnected(error) == error = "DeviceDisconnected"

\* renderState's first condition: the Start scan button is shown.
AtStart == measurements = <<>> /\ uiState = "DISCONNECTED"

\* No dialog covers the buttons.
ButtonsReachable == errorMsg = ""

InitApp ==
    /\ uiState = "DISCONNECTED"
    /\ measurements = <<>>
    /\ errorMsg = ""
    /\ deviceCurrent = NullDevice
    /\ startPresses = 0
    /\ startPc = [h \in StartPresses |-> "idle"]
    /\ scanOf = [h \in StartPresses |-> NoListener]
    /\ cancelPressed = FALSE
    /\ connectPc = [s \in Sessions |-> "idle"]
    /\ subscriptions = 0
    /\ delivered = 0

\* Start scan is pressed: setState(SCANNING), then the handler awaits
\* Help.checkBleConfig.
PressStartScan ==
    /\ ButtonsReachable
    /\ AtStart
    /\ startPresses < MaxScans
    /\ startPresses' = startPresses + 1
    /\ uiState' = "SCANNING"
    /\ startPc' = [startPc EXCEPT ![startPresses + 1] = "checking"]
    /\ cancelPressed' = FALSE
    /\ UNCHANGED <<measurements, errorMsg, deviceCurrent, scanOf, connectPc,
                   subscriptions, delivered>>
    /\ UNCHANGED <<decodeVars, scanVars, connVars, streamVars>>

\* checkBleConfig resolves: handler h calls startScan and awaits its promise.
CheckBleConfigOk(h) ==
    /\ startPc[h] = "checking"
    /\ scanCalls < MaxScans
    /\ scanCalls' = scanCalls + 1
    /\ scanListener' = scanCalls + 1
    /\ scanOf' = [scanOf EXCEPT ![h] = scanCalls + 1]
    /\ startPc' = [startPc EXCEPT ![h] = "scanning"]
    /\ UNCHANGED <<scanPromise, heard, scannerStops, cancelled>>
    /\ UNCHANGED <<uiState, measurements, errorMsg, deviceCurrent, startPresses,
                   cancelPressed, connectPc, subscriptions, delivered>>
    /\ UNCHANGED <<decodeVars, connVars, streamVars>>

\* checkBleConfig throws: the catch of handler h shows the message.
CheckBleConfigFails(h, message) ==
    /\ startPc[h] = "checking"
    /\ startPc' = [startPc EXCEPT ![h] = "failed"]
    /\ errorMsg' = message
    /\ UNCHANGED <<uiState, measurements, deviceCurrent, startPresses, scanOf,
                   cancelPressed, connectPc, subscriptions, delivered>>
    /\ UNCHANGED <<decodeVars, scanVars, connVars, streamVars>>

\* The handler awaiting startScan call i goes on once the promise of i settles:
\* resolved, it stores the device and calls setState(FOUND); rejected, its catch
\* shows the message of the error.
ScanHandlerResumes(i) ==
    LET before == scanPromise[i].status
        after == scanPromise'[i]
        resolved == before = "pending" /\ after.status = "resolved"
        rejected == before = "pending" /\ after.status = "rejected"
    IN  /\ deviceCurrent' = IF resolved THEN after.device ELSE deviceCurrent
        /\ uiState' = IF resolved THEN "FOUND" ELSE uiState
        /\ errorMsg' = IF rejected THEN after.error ELSE errorMsg
        /\ startPc' = [h \in StartPresses |->
               IF scanOf[h] # i THEN startPc[h]
               ELSE IF resolved THEN "done"
               ELSE IF rejected THEN "failed"
               ELSE startPc[h]]

\* The stack reports an advertisement to the scan listener it holds.
AppAdvertise(device) ==
    /\ scanListener # NoListener
    /\ ScanCallback(scanListener, NoError, device)
    /\ ScanHandlerResumes(scanListener)
    /\ UNCHANGED <<scanCalls, heard, cancelled>>
    /\ UNCHANGED <<measurements, startPresses, scanOf, cancelPressed, connectPc,
                   subscriptions, delivered>>
    /\ UNCHANGED <<decodeVars, connVars, streamVars>>

\* The stack reports a scan error to the scan listener it holds.
AppScanFails(error) ==
    /\ scanListener # NoListener
    /\ ScanCallback(scanListener, error, NullDevice)
    /\ ScanHandlerResumes(scanListener)
    /\ UNCHANGED <<scanCalls, heard, cancelled>>
    /\ UNCHANGED <<measurements, startPresses, scanOf, cancelPressed, connectPc,
                   subscriptions, delivered>>
    /\ UNCHANGED <<decodeVars, connVars, streamVars>>

\* Cancel Scan is pressed: setState(DISCONNECTED) and stopScan().
PressCancelScan ==
    /\ ButtonsReachable
    /\ ~AtStart
    /\ uiState = "SCANNING"
    /\ uiState' = "DISCONNECTED"
    /\ scanListener' = stopScan(scanListener)
    /\ cancelled' = [i \in ScanCallIds |->
           \/ cancelled[i]
           \/ (i = scanListener /\ scanPromise[i].status = "pending")]
    /\ cancelPressed' = TRUE
    /\ UNCHANGED <<scanCalls, scanPromise, heard, scannerStops>>
    /\ UNCHANGED <<measurements, errorMsg, deviceCurrent, startPresses, startPc,
                   scanOf, connectPc, subscriptions, delivered>>
    /\ UNCHANGED <<decodeVars, connVars, streamVars>>

\* Connect is pressed: setState(CONNECTING), then the handler calls connect on
\* device.current and awaits it.
PressConnect ==
    /\ ButtonsReachable
    /\ ~AtStart
    /\ uiState = "FOUND"
    /\ deviceCurrent # NullDevice
    /\ connectCalls < MaxConnects
    /\ uiState' = "CONNECTING"
    /\ LET s == connectCalls + 1
       IN  /\ connectCalls' = s
           /\ pc' = [pc EXCEPT ![s] = "connecting"]
           /\ connectPromise' = [connectPromise EXCEPT
                  ![s] = [status |-> "pending", error |-> NoError]]
           /\ events' = [events EXCEPT ![s] = <<Step("connectRequest")>>]
           /\ connectPc' = [connectPc EXCEPT ![s] = "awaiting"]
    /\ UNCHANGED <<now, link, timerDue, observers, disconnectCalls>>
    /\ UNCHANGED <<measurements, errorMsg, deviceCurrent, startPresses, startPc,
                   scanOf, cancelPressed, subscriptions, delivered>>
    /\ UNCHANGED <<decodeVars, scanVars, streamVars>>

\* Time passes while a settling timer is running; the screen reads no clock, so
\* time shows only in the timers of discoverWithDelay.
SettlingTick ==
    /\ \E s \in Sessions : pc[s] = "settling" /\ now < timerDue[s]
    /\ Tick

\* The promise of connect call s has settled and the Connect handler goes on: its
\* catch shows the message of a rejection, and after the try statement it calls
\* setState(CONNECTED).
ConnectHandlerResumes(s) ==
    /\ connectPc[s] = "awaiting"
    /\ connectPromise[s].status \in {"resolved", "rejected"}
    /\ connectPc' = [connectPc EXCEPT ![s] = "done"]
    /\ errorMsg' = IF connectPromise[s].status = "rejected"
                   THEN connectPromise[s].error
                   ELSE errorMsg
    /\ uiState' = "CONNECTED"
    /\ UNCHANGED <<measurements, deviceCurrent, startPresses, startPc, scanOf,
                   cancelPressed, subscriptions, delivered>>
    /\ UNCHANGED <<decodeVars, scanVars, connVars, streamVars>>

\* Receive Data is pressed: setState(RECEIVING) and receiveData registers one more
\* listener with the screen's onError and onData.
PressReceiveData ==
    /\ ButtonsReachable
    /\ ~AtStart
    /\ uiState = "CONNECTED"
    /\ deviceCurrent # NullDevice
    /\ uiState' = "RECEIVING"
    /\ subscriptions' = subscriptions + 1
    /\ UNCHANGED <<measurements, errorMsg, deviceCurrent, startPresses, startPc,
                   scanOf, cancelPressed, connectPc, delivered>>
    /\ UNCHANGED <<decodeVars, scanVars, connVars, streamVars>>

\* The stack delivers a notification to every listener receiveData registered:
\* each calls onError on an error, which shows the message of error 201, and
\* onData on a value, which appends the decoded measurement.
AppNotify(notification) ==
    /\ subscriptions > 0
    /\ delivered < MaxNotifications
    /\ delivered' = delivered + 1
    /\ errorMsg' = IF IsDeviceDisconnected(notification.error)
                   THEN notification.error
                   ELSE errorMsg
    /\ measurements' =
           IF HasValue(notification)
           THEN measurements \o
                [j \in 1..subscriptions |->
                    convertBloodPressure(base64ToHex(notification.value))]
           ELSE measurements
    /\ UNCHANGED <<uiState, deviceCurrent, startPresses, startPc, scanOf,
                   cancelPressed, connectPc, subscriptions>>
    /\ UNCHANGED <<decodeVars, scanVars, connVars, streamVars>>

\* Start again is pressed, in RECEIVING or in the default branch of renderState:
\* setMeasurements([]) and setState(DISCONNECTED).
PressStartAgain ==
    /\ ButtonsReachable
    /\ ~AtStart
    /\ uiState \notin {"SCANNING", "FOUND", "CONNECTING", "CONNECTED"}
    /\ measurements' = <<>>
    /\ uiState' = "DISCONNECTED"
    /\ UNCHANGED <<errorMsg, deviceCurrent, startPresses, startPc, scanOf,
                   cancelPressed, connectPc, subscriptions, delivered>>
    /\ UNCHANGED <<decodeVars, scanVars, connVars, streamVars>>

\* The error dialog is dismissed, by its Ok button or by a touch outside it:
\* setState(DISCONNECTED) and setErrorMsg('').
DismissError ==
    /\ errorMsg # ""
    /\ uiState' = "DISCONNECTED"
    /\ errorMsg' = ""
    /\ UNCHANGED <<measurements, deviceCurrent, startPresses, startPc, scanOf,
                   cancelPressed, connectPc, subscriptions, delivered>>
    /\ UNCHANGED <<decodeVars, scanVars, connVars, streamVars>>

NextApp ==
    \/ PressStartScan
    \/ \E h \in StartPresses : CheckBleConfigOk(h)
    \/ \E h \in StartPresses, message \in ConfigErrors : CheckBleConfigFails(h, message)
    \/ \E device \in AppDevices : AppAdvertise(device)
    \/ \E error \in ScanErrors : AppScanFails(error)
    \/ PressCancelScan
    \/ PressConnect
    \/ \E s \in Sessions : ConnectSucceeds(s)
    \/ \E s \in Sessions, error \in ConnectionErrors : ConnectFails(s, error)
    \/ SettlingTick
    \/ \E s \in Sessions : TimerFires(s)
    \/ \E s \in Sessions : DiscoverySucceeds(s)
    \/ \E s \in Sessions, error \in DiscoveryErrors : DiscoveryFails(s, error)
    \/ Disconnect
    \/ \E s \in Sessions : ConnectHandlerResumes(s)
    \/ PressReceiveData
    \/ \E notification \in AppNotifications : AppNotify(notification)
    \/ PressStartAgain
    \/ DismissError


(***************************************************************************)
(* Specifications                                                          *)
(***************************************************************************)

Init ==
    /\ InitDecode
    /\ InitScan
    /\ InitConnect
    /\ InitStream
    /\ InitApp

Next ==
    \/ NextDecode
    \/ NextScan
    \/ NextConnect
    \/ NextStream
    \/ NextApp

Spec == Init /\ [][Next]_vars

SpecDecode == Init /\ [][NextDecode]_vars

SpecScan == Init /\ [][NextScan]_vars

SpecConnect == Init /\ [][NextConnect]_vars

SpecStream == Init /\ [][NextStream]_vars

SpecApp == Init /\ [][NextApp]_vars

(***************************************************************************)
(* Properties of connect                                                   *)
(***************************************************************************)

Steps(s) == [k \in 1..Len(events[s]) |-> events[s][k].step]

HasStep(s, name) == \E k \in 1..Len(events[s]) : events[s][k].step = name

ConnectOrder ==
    <<"connectRequest", "connectSuccess", "delayElapsed", "discoveryRequest",
      "discoveryComplete", "observerRegistered">>

IsPrefix(a, b) == Len(a) <= Len(b) /\ SubSeq(b, 1, Len(a)) = a

\* C1: the onDisconnect of a session is invoked at most once, and not before the
\* session's discovery has completed.
C1_OnDisconnectOncePerSession ==
    \A s \in Sessions :
        /\ disconnectCalls[s] <= 1
        /\ disconnectCalls[s] >= 1 => HasStep(s, "discoveryComplete")

\* C2: the steps of a session happen in the order connect-request,
\* connect-success, delay elapsed, discovery-request, discovery-complete, observer
\* registration, a failure only ending the sequence at the request it answers, and
\* discovery is requested no sooner than 1600 ms after connect-success.
C2_DiscoveryAfterSettleDelay ==
    \A s \in Sessions :
        LET n == Len(events[s])
            failed == n > 0 /\ events[s][n].step \in {"connectFailed", "discoveryFailed"}
            done == IF failed THEN SubSeq(Steps(s), 1, n - 1) ELSE Steps(s)
        IN  /\ IsPrefix(done, ConnectOrder)
            /\ failed /\ events[s][n].step = "connectFailed" => n = 2
            /\ failed /\ events[s][n].step = "discoveryFailed" => n = 5
            /\ n >= 4 =>
                   /\ events[s][3].at >= events[s][2].at + 1600
                   /\ events[s][4].at >= events[s][2].at + 1600

\* A session went through all six steps, discovery requested exactly when the
\* delay had elapsed.
C2_Witness ==
    \E s \in Sessions :
        /\ Steps(s) = ConnectOrder
        /\ events[s][4].at = events[s][2].at + 1600

\* C3: once discovery has failed, the promise of connect is rejected and no
\* disconnect observer is registered for the session.
C3_DiscoveryFailureRejectsConnect ==
    \A s \in Sessions :
        HasStep(s, "discoveryFailed") =>
            /\ connectPromise[s].status = "rejected"
            /\ s \notin observers

\* C9: when device.connect() is rejected, the promise of connect is rejected with
\* the stack's error, the settling timer is never started, discovery is never
\* requested, no observer is registered and onDisconnect is never invoked.
C9_ConnectFailurePropagates ==
    \A s \in Sessions :
        HasStep(s, "connectFailed") =>
            /\ connectPromise[s].status = "rejected"
            /\ connectPromise[s].error = events[s][2].error
            /\ connectPromise[s].error \in ConnectionErrors
            /\ timerDue[s] = NoTime
            /\ ~HasStep(s, "delayElapsed")
            /\ ~HasStep(s, "discoveryRequest")
            /\ s \notin observers
            /\ disconnectCalls[s] = 0

\* The first connect was rejected by the stack, a later session was established
\* and then lost its link.
C9_Witness ==
    /\ HasStep(1, "connectFailed")
    /\ connectPromise[1].status = "rejected"
    /\ \E s \in Sessions : s # 1 /\ disconnectCalls[s] >= 1

(***************************************************************************)
(* Properties of startScan and stopScan                                    *)
(***************************************************************************)

\* Report k of listener i is an advertisement named exactly "BM77".
IsExactMatch(i, k) ==
    /\ heard[i][k].error = NoError
    /\ heard[i][k].device.name = <<"B", "M", "7", "7">>

IsError(i, k) == heard[i][k].error # NoError

\* C4: startScan resolves only with a device whose advertised name is exactly
\* "BM77"; as long as its listener has heard only advertisements with other names
\* or none, its promise is pending and the listener has not stopped the scan.
C4_ResolvesOnlyOnExactName ==
    \A i \in ScanCallIds :
        /\ scanPromise[i].status = "resolved" =>
               scanPromise[i].device.name = <<"B", "M", "7", "7">>
        /\ (\A k \in 1..Len(heard[i]) : ~IsExactMatch(i, k) /\ ~IsError(i, k)) =>
               /\ scanPromise[i].status = "pending"
               /\ scannerStops[i] = 0

\* A listener has heard "BM770", "bm77" and an advertisement without a name, and
\* is still scanning.
C4_Witness ==
    \E i \in ScanCallIds :
        /\ scanListener = i
        /\ scanPromise[i].status = "pending"
        /\ \E k \in 1..Len(heard[i]) :
               heard[i][k].device.name = <<"B", "M", "7", "7", "0">>
        /\ \E k \in 1..Len(heard[i]) :
               heard[i][k].device.name = <<"b", "m", "7", "7">>
        /\ \E k \in 1..Len(heard[i]) : heard[i][k].device.name = NoName

\* C5: a startScan that was pending when stopScan was called is never resolved.
C5_StopScanCancels ==
    \A i \in ScanCallIds : cancelled[i] => scanPromise[i].status # "resolved"

\* A scan was cancelled, and an advertisement named "BM77" that the stack reported
\* afterwards resolved a later scan.
C5_Witness ==
    \E i, j \in ScanCallIds :
        /\ i < j
        /\ cancelled[i]
        /\ scanPromise[i].status = "pending"
        /\ scanPromise[j].status = "resolved"

\* The first advertisement named exactly "BM77" among the reports of listener i.
FirstMatch(i) ==
    heard[i][CHOOSE k \in 1..Len(heard[i]) :
                 /\ IsExactMatch(i, k)
                 /\ \A j \in 1..(k - 1) : ~IsExactMatch(i, j)].device

ResolvedWithFirstMatch ==
    \A i \in ScanCallIds :
        /\ (\E k \in 1..Len(heard[i]) : IsExactMatch(i, k)) =>
               /\ scanPromise[i].status = "resolved"
               /\ IsExactMatch(i, Len(heard[i]))
        /\ scanPromise[i].status = "resolved" =>
               /\ \E k \in 1..Len(heard[i]) : IsExactMatch(i, k)
               /\ scanPromise[i].device = FirstMatch(i)
               /\ scanListener # i
               /\ scannerStops[i] = 1

SettledStaysSettled ==
    \A i \in ScanCallIds :
        scanPromise[i].status # "pending" => scanPromise'[i] = scanPromise[i]

\* C10: the first advertisement named "BM77" that a listener hears resolves its
\* startScan with that device and stops the scan, it is the last report the
\* listener hears, and a settled promise never changes.
C10_FirstMatchOnly == []ResolvedWithFirstMatch /\ [][SettledStaysSettled]_vars

\* A scan resolved with device 1, and afterwards the stack reported the "BM77" of
\* device 2 or a scan error, which settled a later scan.
C10_Witness ==
    \E i, j \in ScanCallIds :
        /\ i < j
        /\ scanPromise[i].status = "resolved"
        /\ scanPromise[i].device.id = 1
        /\ \/ scanPromise[j].status = "resolved" /\ scanPromise[j].device.id = 2
           \/ scanPromise[j].status = "rejected"

(***************************************************************************)
(* Properties of receiveData                                               *)
(***************************************************************************)

\* Notification k carries a value: its result is there and its value is not empty.
CarriesValue(k) == notified[k].value \notin {NullValue, <<>>}

CarriesError(k) == notified[k].error # NoError

\* How many of the first k notifications carry a value.
RECURSIVE ValuesUpTo(_)
ValuesUpTo(k) ==
    IF k = 0 THEN 0
    ELSE ValuesUpTo(k - 1) + (IF CarriesValue(k) THEN 1 ELSE 0)

\* C6: every notification that carries a value has its own onData invocation with
\* its decoded measurement, also when error notifications came before it.
C6_ErrorsDoNotEndTheStream ==
    /\ Len(dataCalls) = ValuesUpTo(Len(notified))
    /\ \A k \in 1..Len(notified) :
           CarriesValue(k) =>
               dataCalls[ValuesUpTo(k)] =
                   convertBloodPressure(base64ToHex(notified[k].value))

\* An error notification was followed by one with a frame, and onError and onData
\* were both invoked.
C6_Witness ==
    /\ \E j, k \in 1..Len(notified) : j < k /\ CarriesError(j) /\ CarriesValue(k)
    /\ Len(errorCalls) >= 1
    /\ Len(dataCalls) >= 1

(***************************************************************************)
(* Properties of the decoder                                               *)
(***************************************************************************)

\* Bit i of byte b, bit 0 being the most significant.
Bit(b, i) == (b \div (2 ^ (7 - i))) % 2

TwoBits(b, i) == 2 * Bit(b, i) + Bit(b, i + 1)

\* C7: the status byte at offset 17 decides the six status fields bit by bit,
\* bit 0 being the most significant; 0xA5 gives Body movement, Cuff fits properly,
\* Irregular pulse, In range, Improper position, HSD detected.
C7_StatusByteDecoding ==
    Len(rawFrame) = 20 =>
        LET b == rawFrame[18]
            m == measurement[1]
        IN  /\ m.bodyMovement =
                   (IF Bit(b, 0) = 0 THEN "No body movement" ELSE "Body movement")
            /\ m.cuffFit =
                   (IF Bit(b, 1) = 0 THEN "Cuff fits properly" ELSE "Cuff is too loose")
            /\ m.irregularPulse =
                   (IF Bit(b, 2) = 0 THEN "No irregular pulse" ELSE "Irregular pulse")
            /\ m.pulseRateRange =
                   <<"In range", "Exceeds upper limit", "Below lower limit",
                     "Undefined">>[TwoBits(b, 3) + 1]
            /\ m.measurementPosition =
                   (IF Bit(b, 5) = 0 THEN "Proper position" ELSE "Improper position")
            /\ m.HSD =
                   <<"HSD not detected", "HSD detected", "Unable to judge",
                     "Undefined">>[TwoBits(b, 6) + 1]
            /\ b = 165 =>
                   /\ m.bodyMovement = "Body movement"
                   /\ m.cuffFit = "Cuff fits properly"
                   /\ m.irregularPulse = "Irregular pulse"
                   /\ m.pulseRateRange = "In range"
                   /\ m.measurementPosition = "Improper position"
                   /\ m.HSD = "HSD detected"

\* The frame with status byte 0xA5 was decoded.
C7_Witness ==
    /\ Len(rawFrame) = 20
    /\ rawFrame[18] = 165
    /\ measurement[1].HSD = "HSD detected"

\* C8: the numeric fields of the measurement are the frame's bytes at the fixed
\* offsets, 16-bit fields low byte first; the example frame decodes to 120/80,
\* 2023-06-15 10:30:00, pulse rate 72, user 0.
C8_NumericFieldDecoding ==
    Len(rawFrame) = 20 =>
        LET f == rawFrame
            m == measurement[1]
        IN  /\ m.header = f[1]
            /\ m.systolic = f[2] + 256 * f[3]
            /\ m.diastolic = f[4] + 256 * f[5]
            /\ m.meanArterialPressure = f[6]
            /\ m.year = f[8] + 256 * f[9]
            /\ m.month = f[10]
            /\ m.day = f[11]
            /\ m.hours = f[12]
            /\ m.minutes = f[13]
            /\ m.seconds = f[14]
            /\ m.pulseRate = f[15] + 256 * f[16]
            /\ m.userID = f[17]
            /\ f = <<0, 120, 0, 80, 0, 0, 0, 231, 7, 6, 15, 10, 30, 0, 72, 0, 0, 0, 0, 0>> =>
                   /\ m.systolic = 120
                   /\ m.diastolic = 80
                   /\ m.year = 2023 /\ m.month = 6 /\ m.day = 15
                   /\ m.hours = 10 /\ m.minutes = 30 /\ m.seconds = 0
                   /\ m.pulseRate = 72
                   /\ m.userID = 0

\* The example frame was decoded.
C8_Witness ==
    /\ rawFrame = <<0, 120, 0, 80, 0, 0, 0, 231, 7, 6, 15, 10, 30, 0, 72, 0, 0, 0, 0, 0>>
    /\ measurement[1].systolic = 120
    /\ measurement[1].year = 2023

\* C11: a scan error reported to the listener of a pending startScan is the last
\* report that listener hears: it stops the scan and rejects the promise with
\* that error; a promise is rejected only by a scan error and then holds no device.
C11_ScanErrorRejects ==
    \A i \in ScanCallIds :
        /\ \A k \in 1..Len(heard[i]) :
               IsError(i, k) =>
                   /\ k = Len(heard[i])
                   /\ scanPromise[i].status = "rejected"
                   /\ scanPromise[i].error = heard[i][k].error
                   /\ scanPromise[i].device = NullDevice
                   /\ scanListener # i
                   /\ scannerStops[i] = 1
        /\ scanPromise[i].status = "rejected" =>
               /\ Len(heard[i]) >= 1
               /\ IsError(i, Len(heard[i]))

\* A listener heard an advertisement with another name and then a scan error,
\* and its startScan was rejected.
C11_Witness ==
    \E i \in ScanCallIds :
        /\ Len(heard[i]) >= 2
        /\ ~IsError(i, 1)
        /\ IsError(i, Len(heard[i]))
        /\ scanPromise[i].status = "rejected"
        /\ scanPromise[i].error = "BluetoothUnauthorized"

(***************************************************************************)
(* Order of dispatch and frames of the wrong length                        *)
(***************************************************************************)

\* The decodings of the value-carrying notifications among the first k, in order.
RECURSIVE DecodedValues(_)
DecodedValues(k) ==
    IF k = 0 THEN <<>>
    ELSE IF CarriesValue(k)
         THEN Append(DecodedValues(k - 1),
                     convertBloodPressure(base64ToHex(notified[k].value)))
         ELSE DecodedValues(k - 1)

\* The errors of the error-carrying notifications among the first k, in order.
RECURSIVE ReportedErrors(_)
ReportedErrors(k) ==
    IF k = 0 THEN <<>>
    ELSE IF CarriesError(k)
         THEN Append(ReportedErrors(k - 1), notified[k].error)
         ELSE ReportedErrors(k - 1)

DispatchedInOrder ==
    /\ dataCalls = DecodedValues(Len(notified))
    /\ errorCalls = ReportedErrors(Len(notified))

\* The delivery of one notification adds its own callbacks, and only those, to
\* the invocations made so far.
OneAtATime ==
    notified' # notified =>
        LET k == Len(notified')
        IN  /\ k = Len(notified) + 1
            /\ SubSeq(notified', 1, k - 1) = notified
            /\ Len(dataCalls') =
                   Len(dataCalls) + (IF notified'[k].value \notin {NullValue, <<>>}
                                     THEN 1 ELSE 0)
            /\ Len(errorCalls') =
                   Len(errorCalls) + (IF notified'[k].error # NoError THEN 1 ELSE 0)
            /\ SubSeq(dataCalls', 1, Len(dataCalls)) = dataCalls
            /\ SubSeq(errorCalls', 1, Len(errorCalls)) = errorCalls

\* C12: the onData invocations are, in order, the decodings of exactly the
\* notifications that carry a value, the onError invocations are, in order,
\* exactly the errors reported, and the callbacks of one notification are made
\* before the next notification is delivered.
C12_DispatchInOrder == []DispatchedInOrder /\ [][OneAtATime]_vars

\* Two different frames and two different errors were delivered.
C12_Witness ==
    /\ Len(dataCalls) >= 2
    /\ dataCalls[1] # dataCalls[2]
    /\ \E j, k \in 1..Len(notified) :
           j < k /\ CarriesError(j) /\ CarriesValue(k)

\* The frame behind notification k.
FrameOf(k) ==
    CHOOSE f \in BaseFrames \cup MalformedFrames : Base64Encode(f) = notified[k].value

IsMalformed(k) == CarriesValue(k) /\ Len(FrameOf(k)) # 20

\* A one-byte field at offset i of frame f: not-a-number if the byte is missing.
ByteField(f, i) == IF i < Len(f) THEN f[i + 1] ELSE NaN

\* A two-byte field at offsets i, i + 1: not-a-number if a byte is missing.
WordField(f, i) == IF i + 1 < Len(f) THEN f[i + 1] + 256 * f[i + 2] ELSE NaN

\* C13: a notification whose non-empty value is not 20 bytes long gets exactly one
\* onData invocation, with a measurement whose numeric fields are not-a-number
\* where bytes are missing and the frame's bytes elsewhere; it gets no onError,
\* and the notifications after it are dispatched as usual.
C13_MalformedFrameIsData ==
    /\ Len(dataCalls) = ValuesUpTo(Len(notified))
    /\ \A e \in 1..Len(errorCalls) : errorCalls[e] \in TransportErrors
    /\ Len(errorCalls) = Cardinality({k \in 1..Len(notified) : CarriesError(k)})
    /\ \A k \in 1..Len(notified) :
           IsMalformed(k) =>
               LET f == FrameOf(k)
                   m == dataCalls[ValuesUpTo(k)]
               IN  /\ ~CarriesError(k)
                   /\ m.header = ByteField(f, 0)
                   /\ m.systolic = WordField(f, 1)
                   /\ m.diastolic = WordField(f, 3)
                   /\ m.meanArterialPressure = ByteField(f, 5)
                   /\ m.year = WordField(f, 7)
                   /\ m.month = ByteField(f, 9)
                   /\ m.day = ByteField(f, 10)
                   /\ m.hours = ByteField(f, 11)
                   /\ m.minutes = ByteField(f, 12)
                   /\ m.seconds = ByteField(f, 13)
                   /\ m.pulseRate = WordField(f, 14)
                   /\ m.userID = ByteField(f, 16)

\* A two-byte frame was handed to onData with a not-a-number systolic value, and
\* the full frame after it was decoded.
C13_Witness ==
    /\ Len(notified) >= 2
    /\ IsMalformed(1)
    /\ Len(FrameOf(1)) = 2
    /\ dataCalls[1].header = 22
    /\ dataCalls[1].systolic = NaN
    /\ CarriesValue(2)
    /\ FrameOf(2) = ExampleFrame
    /\ Len(dataCalls) = 2
    /\ dataCalls[2].systolic = 120
    /\ errorCalls = <<>>

(***************************************************************************)
(* stopScan outside a running scan                                         *)
(***************************************************************************)

\* What a call of stopScan leaves behind: the promises as they were, nothing at
\* all changed if the stack held no listener, and a state in which another call
\* of stopScan changes nothing.
StopScanIsHarmless ==
    StopScan =>
        /\ scanPromise' = scanPromise
        /\ scanListener = NoListener => UNCHANGED scanVars
        /\ stopScan(scanListener') = scanListener'
        /\ \A i \in ScanCallIds :
               (i = scanListener' /\ scanPromise'[i].status = "pending") => cancelled'[i]

\* C14: stopScan called twice has the effect of stopScan called once, stopScan
\* without a running scan changes nothing, and stopScan never changes the result
\* of a startScan that has been resolved or rejected.
C14_StopScanIdempotent == [][StopScanIsHarmless]_vars

\* No scan is running, one startScan has been resolved and another has been
\* cancelled by stopScan.
C14_Witness ==
    /\ scanListener = NoListener
    /\ \E i, j \in ScanCallIds :
           /\ scanPromise[i].status = "resolved"
           /\ cancelled[j]

(***************************************************************************)
(* Link drops and onDisconnect                                             *)
(***************************************************************************)

\* The link has dropped since the connect-success of s: s brought it up, no other
\* session did, and it is down.
LinkDroppedSince(s) ==
    /\ HasStep(s, "connectSuccess")
    /\ \A t \in Sessions \ {s} : ~HasStep(t, "connectSuccess")
    /\ link = "down"

\* C15: a session that has seen the link drop after its connect-success has had
\* its onDisconnect invoked by the time nothing more can happen in it.
C15_DropAlwaysReported ==
    \A s \in Sessions :
        (LinkDroppedSince(s) /\ pc[s] = "stalled") => disconnectCalls[s] >= 1

\* A drop of the link invokes onDisconnect once for every session whose connect
\* has returned, and for no other session.
DropReportedToEstablished ==
    (link = "up" /\ link' = "down") =>
        \A s \in Sessions :
            disconnectCalls'[s] =
                disconnectCalls[s]
                + (IF connectPromise[s].status = "resolved" THEN 1 ELSE 0)

\* C15 as amended: when the link drops after connect has returned (discovery
\* complete, observer registered), onDisconnect is invoked for that session at that
\* drop; a drop between connect-success and the registration of the observer
\* invokes no onDisconnect for that session.
C15_DropReportedOnceObserved == [][DropReportedToEstablished]_vars

\* The link dropped on an established session, which was told, and dropped again
\* during the settling delay of a later session, which was not.
C15_Witness ==
    \E s, t \in Sessions :
        /\ connectPromise[s].status = "resolved"
        /\ disconnectCalls[s] >= 1
        /\ pc[t] = "settling"
        /\ link = "down"
        /\ disconnectCalls[t] = 0

(***************************************************************************)
(* Bytes the decoder does not read                                         *)
(***************************************************************************)

\* Frame f with bytes 6, 18 and 19 set to zero.
WithoutSpareBytes(f) == [i \in 1..Len(f) |-> IF i \in {7, 19, 20} THEN 0 ELSE f[i]]

\* C16: the measurement decoded from a 20-byte frame is the measurement decoded
\* from the frame with bytes 6, 18 and 19 cleared, so frames that agree on bytes
\* 0-5 and 7-17 decode to equal measurements.
C16_SpareBytesIgnored ==
    Len(rawFrame) = 20 => measurement[1] = Decode(WithoutSpareBytes(rawFrame))

\* A frame whose bytes 6, 18 and 19 are not all zero was decoded.
C16_Witness ==
    /\ Len(rawFrame) = 20
    /\ rawFrame[7] # 0
    /\ rawFrame[19] # 0
    /\ rawFrame[20] # 0
    /\ rawFrame # BusyFrame
    /\ measurement[1].year = 2024

(***************************************************************************)
(* Properties of the screen flow                                           *)
(***************************************************************************)

ConnectHandlerReturns(s) == connectPc[s] = "awaiting" /\ connectPc'[s] = "done"

ConnectedOnlyOnResolve ==
    /\ (uiState # "CONNECTED" /\ uiState' = "CONNECTED") =>
           \E s \in Sessions : ConnectHandlerReturns(s)
    /\ \A s \in Sessions :
           (ConnectHandlerReturns(s) /\ uiState' = "CONNECTED") =>
               connectPromise[s].status = "resolved"

====
